---- MODULE Spec2Model ----
(***************************************************************************)
(* Learnfinity python-backend: the spaced-repetition engines               *)
(* (app/services/spaced_repetition.py, intelligent_spaced_repetition.py)   *)
(* over the spaced_repetition_data table.                                  *)
(*                                                                         *)
(* Number representation.  Ease factors are kept in tenths (25 is 2.5),    *)
(* probabilities, urgency scores and confidences in hundredths (85 is      *)
(* 0.85), scores are the integers 0..100, time is counted in ticks of      *)
(* 1/TicksPerDay day, so that timedelta.days is a real floor.              *)
(*                                                                         *)
(* The table is an external collaborator: a read or a write of it either   *)
(* succeeds or raises, which the actions draw as an input.                 *)
(* calculate_next_review reads the row through db_service                  *)
(* (spaced_repetition.py:65-66); the model takes that lookup to yield the  *)
(* stored row of (user, topic) or nothing, or to raise.                    *)
(***************************************************************************)
EXTENDS Integers, Sequences, FiniteSets, TLC

VARIABLES store, now, submitted, last, due, task, ml

vars == <<store, now, submitted, last, due, task, ml>>

(***************************************************************************)
(* Bounds of the model.                                                    *)
(***************************************************************************)
TicksPerDay == 2
MaxNow == 2
MaxReviews == 2
\* numbers of earlier reviews behind the rows a table may already hold
FloorSeedReviews == 6
LevelSeedReviews == 5
DriftSeedReviews == 16
EarlySeedReviews == 2
LateSeedReviews == 5
NumWorkers == 2
\* the farthest target date of a plan request, in days from the start
MaxPlanDays == 2
MaxGenerations == 2
MaxHorizonDays == 16
MaxDayBlocks == 3
MaxLoopPasses == 5



(***************************************************************************)
(* Inputs.                                                                 *)
(***************************************************************************)
Topics == {"Algebra", "Biology", "Chemistry"}
ReviewTopics == {"Algebra"}
\* one score of each band of _calculate_interval_adjustment / _update_ease_factor
Scores == {30, 50, 70, 85, 95}
\* the three documented tags and one that is none of them
Difficulties == {"easy", "medium", "hard", "expert"}

Max(a, b) == IF a >= b THEN a ELSE b
Min(a, b) == IF a <= b THEN a ELSE b

\* timedelta(days=n) in ticks
Days(n) == n * TicksPerDay
\* timedelta.days of a span of ticks (floor, also for a negative span)
WholeDays(ticks) == ticks \div TicksPerDay

(***************************************************************************)
(* Rows of spaced_repetition_data, for one user.                           *)
(***************************************************************************)
NoRow == [exists |-> FALSE]

\* performance_history entries: calculate_next_review appends the bare score,
\* update_spaced_repetition_data appends a record with a 'score' key
NumberEntry(score) == [kind |-> "number", score |-> score, interval_used |-> 0]
RecordEntry(score, interval) ==
    [kind |-> "record", score |-> score, interval_used |-> interval]

AllNumbers(history) == \A i \in 1..Len(history) : history[i].kind = "number"
AllRecords(history) == \A i \in 1..Len(history) : history[i].kind = "record"

(***************************************************************************)
(* SpacedRepetitionEngine (spaced_repetition.py)                           *)
(***************************************************************************)
INTERVALS(tag) ==
    CASE tag = "EASY"   -> <<1, 6, 15, 30, 90, 180, 365>>
      [] tag = "MEDIUM" -> <<1, 3, 7, 14, 30, 60, 120>>
      [] tag = "HARD"   -> <<1, 2, 4, 8, 16, 32, 64>>
      [] OTHER          -> <<1, 3, 7, 14, 30, 60, 120>>

\* difficulty.upper()
Upper(difficulty) ==
    CASE difficulty = "easy"   -> "EASY"
      [] difficulty = "medium" -> "MEDIUM"
      [] difficulty = "hard"   -> "HARD"
      [] OTHER                 -> "OTHER"

\* _calculate_interval_adjustment, in tenths; the thresholds 0.9, 0.8, 0.6,
\* 0.4 on score / 100 are 90, 80, 60, 40 on the score
IntervalAdjustment(score) ==
    IF score >= 90 THEN 15
    ELSE IF score >= 80 THEN 12
    ELSE IF score >= 60 THEN 10
    ELSE IF score >= 40 THEN 7
    ELSE 5

\* int(current_interval * interval_adjustment) in binary floating point: the
\* truncated exact product, except 90 * 0.7 and 180 * 0.7, which round to
\* 62.99999999999999 and 125.99999999999999 over the table values
TruncatedProduct(current, tenths) ==
    IF tenths = 7 /\ current \in {90, 180}
    THEN (current * tenths) \div 10 - 1
    ELSE (current * tenths) \div 10

\* _update_ease_factor, in tenths
UpdateEaseFactor(ease, score) ==
    IF score >= 90 THEN ease + 1
    ELSE IF score >= 80 THEN ease
    ELSE IF score >= 60 THEN ease - 1
    ELSE Max(13, ease - 2)

\* _calculate_forgetting_probability(last_review, interval) evaluated at time t:
\* 1 - exp(-(days_since / interval) / (interval * 0.5)).  The model keeps the
\* two values the hundredths grid can tell apart exactly: 0 when no whole day
\* has passed (exp(0) = 1), and otherwise the rounded value for the spans the
\* bounds allow.
ForgettingProbabilityAt(t, last_review, interval) ==
    IF interval <= 0 THEN 100
    ELSE IF WholeDays(t - last_review) = 0 THEN 0
    ELSE Min(100, (200 * WholeDays(t - last_review)) \div (interval * interval))

\* lines 75-84: the record a first review starts from
NewSRData(t) ==
    [exists |-> TRUE, interval_days |-> 1, repetitions |-> 0, ease_factor |-> 25,
     last_review |-> t, next_review |-> t + Days(1),
     performance_history |-> <<>>, forgetting_probability |-> 100]

\* lines 74-125 and 137-143: the updated record and the response, or the
\* TypeError of np.mean over a history that holds records
ReviewOutcome(row, score, difficulty, t) ==
    LET sr0       == IF row.exists THEN row ELSE NewSRData(t)
        history   == Append(sr0.performance_history, NumberEntry(score))
        intervals == INTERVALS(Upper(difficulty))
        level     == sr0.interval_days
        current   == intervals[Min(level, Len(intervals) - 1) + 1]
        adjusted  == Max(1, TruncatedProduct(current, IntervalAdjustment(score)))
        newLevel  == IF score >= 80 /\ level < Len(intervals) - 1
                     THEN level + 1 ELSE level
        data      == [exists |-> TRUE,
                      interval_days |-> newLevel,
                      repetitions |-> sr0.repetitions + 1,
                      ease_factor |-> UpdateEaseFactor(sr0.ease_factor, score),
                      last_review |-> t,
                      next_review |-> t + Days(adjusted),
                      performance_history |-> history,
                      forgetting_probability |->
                          ForgettingProbabilityAt(t, t, adjusted)]
    IN  IF ~AllNumbers(history)
        THEN [raised |-> TRUE]
        ELSE [raised |-> FALSE, data |-> data, interval_days |-> adjusted]

\* the stored row after n reviews of one topic, all with the same score and
\* tag, the first at time 0 on an empty table
RECURSIVE AfterReviews(_, _, _)
AfterReviews(n, score, difficulty) ==
    IF n = 0 THEN NoRow
    ELSE ReviewOutcome(AfterReviews(n - 1, score, difficulty),
                       score, difficulty, 0).data

NoResponse == [op |-> "none"]

\* calculate_next_review as smart_scheduler.update_spaced_repetition calls it:
\* the handler runs to completion on the event loop
CalculateNextReview(topic, score, difficulty, readOk, writeOk) ==
    LET out == ReviewOutcome(store[topic], score, difficulty, now)
        request == [op |-> "calculate_next_review", topic |-> topic,
                    score |-> score, difficulty |-> difficulty,
                    pre |-> store[topic]]
    IN  /\ submitted < MaxReviews
        /\ submitted' = submitted + 1
        /\ IF ~readOk \/ out.raised
           THEN /\ last' = [request EXCEPT !.op = "calculate_next_review"]
                             @@ [raised |-> TRUE]
                /\ UNCHANGED store
           ELSE /\ store' = IF writeOk
                            THEN [store EXCEPT ![topic] = out.data]
                            ELSE store
                /\ last' = request @@
                     [raised |-> FALSE,
                      next_review |-> out.data.next_review,
                      interval_days |-> out.interval_days,
                      repetitions |-> out.data.repetitions,
                      ease_factor |-> out.data.ease_factor,
                      forgetting_probability |-> out.data.forgetting_probability,
                      saved |-> writeOk]
        /\ UNCHANGED <<now, due, task, ml>>

\* datetime.now() moves on between requests
AdvanceClock ==
    /\ now < MaxNow
    /\ now' = now + 1
    /\ UNCHANGED <<store, submitted, last, due, task, ml>>

(***************************************************************************)
(* IntelligentSpacedRepetition (intelligent_spaced_repetition.py)          *)
(***************************************************************************)
\* history[-n:]
LastN(history, n) == SubSeq(history, Max(1, Len(history) - n + 1), Len(history))

RECURSIVE SumScores(_)
SumScores(history) ==
    IF history = <<>> THEN 0 ELSE history[1].score + SumScores(Tail(history))

\* get_topic_history: the stored performance_history, [] when there is no row
\* or the fetch raises
GetTopicHistory(row, fetchOk) ==
    IF fetchOk /\ row.exists THEN row.performance_history ELSE <<>>

\* prepare_features reads h['score'] of the last five entries and the last
\* entry's timestamp: a TypeError when one of them is a bare number
PrepareFeaturesRaises(history) == ~AllRecords(LastN(history, 5))

\* what the predictor does with the features: the scaler or the model raises
\* (not fitted, wrong shape), or the model returns raw
Predictions ==
    {[fitted |-> FALSE, ok |-> FALSE, raw |-> 0],
     [fitted |-> TRUE,  ok |-> FALSE, raw |-> 0],
     [fitted |-> TRUE,  ok |-> TRUE,  raw |-> 0],
     [fitted |-> TRUE,  ok |-> TRUE,  raw |-> 30],
     [fitted |-> TRUE,  ok |-> TRUE,  raw |-> 400]}

\* predict_interval
PredictInterval(pred) ==
    IF pred.ok THEN Max(1, Min(365, pred.raw)) ELSE 7

\* apply_interval_constraints; the two multipliers are kept in tenths and the
\* product in hundredths.  An entry written by update_spaced_repetition_data
\* has no 'interval_days' and no 'ease_factor' key, so lines 238-239 read the
\* defaults 1 and 2.5
ApplyIntervalConstraints(predicted, history, score) ==
    LET performance == IF score >= 90 THEN 12
                       ELSE IF score >= 80 THEN 11
                       ELSE IF score >= 60 THEN 10
                       ELSE 8
        recent == LastN(history, 3)
        trend  == IF history = <<>> THEN 10
                  ELSE IF SumScores(recent) > 85 * Len(recent) THEN 11
                  ELSE IF SumScores(recent) < 60 * Len(recent) THEN 9
                  ELSE 10
        scaled == predicted * performance * trend
    IN  IF Len(history) = 0 THEN 1
        ELSE IF Len(history) = 1 THEN 6
        ELSE IF Len(history) < 5 THEN Max(1, (1 * 25) \div 10)
        ELSE Max(1, Min(365, scaled \div 100))

\* calculate_confidence, in hundredths: a fitted forest has
\* feature_importances_ (they sum to 1 over the 15 features), an unfitted
\* one has not
CalculateConfidence(pred) ==
    IF pred.fitted THEN Min(95, 50 + 200 \div 15) ELSE Min(95, 60 + 15 * 2)

\* calculate_ease_factor, in tenths, from the mean of the last five scores
CalculateEaseFactor(history) ==
    LET recent == LastN(history, 5)
        total  == SumScores(recent)
        n      == Len(recent)
    IN  IF Len(history) < 2 THEN 25
        ELSE IF total >= 90 * n THEN 28
        ELSE IF total >= 80 * n THEN 26
        ELSE IF total >= 70 * n THEN 24
        ELSE IF total >= 60 * n THEN 22
        ELSE 20

\* update_spaced_repetition_data, lines 320-361: the row it writes for the
\* row it read; calculate_ease_factor raises on a bare-number entry and then
\* nothing is written
UpdateRaises(existing, score, interval) ==
    /\ existing.exists
    /\ ~AllRecords(LastN(Append(existing.performance_history,
                                 RecordEntry(score, interval)), 5))

UpdatedRow(existing, score, interval, next_review, t) ==
    LET entry == RecordEntry(score, interval)
    IN  IF existing.exists
        THEN LET history == Append(existing.performance_history, entry)
             IN  [existing EXCEPT
                    !.interval_days = interval,
                    !.repetitions = existing.repetitions + 1,
                    !.ease_factor = CalculateEaseFactor(history),
                    !.last_review = t,
                    !.next_review = next_review,
                    !.performance_history = history]
        ELSE [exists |-> TRUE, interval_days |-> interval, repetitions |-> 1,
              ease_factor |-> 25, last_review |-> t,
              next_review |-> next_review,
              performance_history |-> <<entry>>,
              forgetting_probability |-> 0]

\* fallback_supermemo2: what it returns; it writes nothing.  int() of the
\* product is the floor of the exact product (the drift of repeated +-0.1 in
\* binary floating point is not modelled)
FallbackSupermemo2(row, readOk, score, t) ==
    LET interval ==
          IF ~row.exists THEN 1
          ELSE IF score >= 60
               THEN IF row.repetitions = 0 THEN 1
                    ELSE IF row.repetitions = 1 THEN 6
                    ELSE (row.interval_days * row.ease_factor) \div 10
               ELSE 1
    IN  IF readOk
        THEN [raised |-> FALSE, interval_days |-> interval,
              next_review |-> t + Days(interval), confidence |-> 60,
              ml_prediction |-> interval, fallback |-> TRUE]
        ELSE [raised |-> FALSE, interval_days |-> 7,
              next_review |-> t + Days(7), confidence |-> 50,
              ml_prediction |-> 7, fallback |-> TRUE]

\* lines 83-118 up to the update: the interval of the normal path
IntelligentInterval(history, pred, score) ==
    ApplyIntervalConstraints(PredictInterval(pred), history, score)

\* the stored row after n reviews of one topic through
\* calculate_intelligent_interval, all with the same score, the predictor
\* never fitted, the first at time 0 on an empty table
RECURSIVE AfterIntelligentReviews(_, _)
AfterIntelligentReviews(n, score) ==
    IF n = 0 THEN NoRow
    ELSE LET before == AfterIntelligentReviews(n - 1, score)
             final  == IntelligentInterval(
                           GetTopicHistory(before, TRUE),
                           [fitted |-> FALSE, ok |-> FALSE, raw |-> 0], score)
         IN  UpdatedRow(before, score, final, Days(final), 0)

\* calculate_intelligent_interval with no other request in flight
CalculateIntelligentInterval(topic, score, difficulty, io, pred) ==
    LET row     == store[topic]
        history == GetTopicHistory(row, io.history)
        final   == IntelligentInterval(history, pred, score)
        written == io.update = "ok" /\ ~UpdateRaises(row, score, final)
        request == [op |-> "calculate_intelligent_interval", topic |-> topic,
                    score |-> score, difficulty |-> difficulty, pre |-> row,
                    predicted |-> pred.ok]
    IN  /\ submitted < MaxReviews
        /\ submitted' = submitted + 1
        /\ IF PrepareFeaturesRaises(history)
           THEN /\ last' = request @@
                     FallbackSupermemo2(row, io.fallback, score, now) @@
                     [saved |-> FALSE]
                /\ UNCHANGED store
           ELSE /\ store' = IF written
                            THEN [store EXCEPT ![topic] =
                                    UpdatedRow(row, score, final,
                                               now + Days(final), now)]
                            ELSE store
                /\ last' = request @@
                     [raised |-> FALSE, interval_days |-> final,
                      next_review |-> now + Days(final),
                      confidence |-> CalculateConfidence(pred),
                      ml_prediction |-> PredictInterval(pred),
                      fallback |-> FALSE, saved |-> written]
        /\ UNCHANGED <<now, due, task, ml>>

(***************************************************************************)
(* calculate_intelligent_interval as a coroutine: every await of the table *)
(* is a point where another request's steps may run.                       *)
(***************************************************************************)
Workers == 1..NumWorkers
NoTask == [pc |-> "idle"]

\* lines 85-104: the fetches, the prediction and the constraints; a
\* TypeError of prepare_features sends the call to fallback_supermemo2,
\* which answers without writing
BeginReview(w, topic, score, io, pred) ==
    LET history == GetTopicHistory(store[topic], io.history)
        final   == IntelligentInterval(history, pred, score)
    IN  /\ task[w].pc = "idle"
        /\ task' = [task EXCEPT ![w] =
              IF PrepareFeaturesRaises(history)
              THEN [pc |-> "done", topic |-> topic, score |-> score,
                    interval_days |->
                        FallbackSupermemo2(store[topic], io.fallback,
                                           score, now).interval_days,
                    fallback |-> TRUE, saved |-> FALSE]
              ELSE [pc |-> "update", topic |-> topic, score |-> score,
                    interval_days |-> final, next_review |-> now + Days(final),
                    fallback |-> FALSE]]
        /\ UNCHANGED <<store, now, submitted, last, due, ml>>

\* lines 314-318: update_spaced_repetition_data reads the row
ReadExisting(w, readOk) ==
    /\ task[w].pc = "update"
    /\ task' = [task EXCEPT ![w] =
          IF readOk
          THEN [task[w] EXCEPT !.pc = "write"]
                 @@ [existing |-> store[task[w].topic]]
          ELSE [task[w] EXCEPT !.pc = "done"] @@ [saved |-> FALSE]]
    /\ UNCHANGED <<store, now, submitted, last, due, ml>>

\* lines 320-361: the row computed from the one read is written over the
\* stored one; lines 112-118: the call returns
WriteBack(w, writeOk) ==
    LET t == task[w]
        written == writeOk /\ ~UpdateRaises(t.existing, t.score, t.interval_days)
    IN  /\ t.pc = "write"
        /\ store' = IF written
                    THEN [store EXCEPT ![t.topic] =
                            UpdatedRow(t.existing, t.score, t.interval_days,
                                       t.next_review, now)]
                    ELSE store
        /\ task' = [task EXCEPT ![w] =
                      [t EXCEPT !.pc = "done"] @@ [saved |-> written]]
        /\ UNCHANGED <<now, submitted, last, due, ml>>

(***************************************************************************)
(* SpacedRepetitionEngine.get_topics_due_for_review                        *)
(***************************************************************************)
\* lines 172-181: the urgency score in hundredths and its tier
UrgencyScore(forgetting, overdue) == forgetting + overdue * 10

\* the tiers with the thresholds themselves counted into the higher tier
UrgencyTierInclusive(urgency) ==
    IF urgency >= 80 THEN "critical"
    ELSE IF urgency >= 60 THEN "high"
    ELSE IF urgency >= 40 THEN "medium"
    ELSE "low"

UrgencyTier(urgency) ==
    IF urgency > 80 THEN "critical"
    ELSE IF urgency > 60 THEN "high"
    ELSE IF urgency > 40 THEN "medium"
    ELSE "low"

\* the sort key's first component, line 198
TierRank(tier) ==
    CASE tier = "critical" -> 0
      [] tier = "high"     -> 1
      [] tier = "medium"   -> 2
      [] OTHER             -> 3

\* lines 168-194: the entry of one due row
DueEntry(topic, row, t) ==
    LET overdue == WholeDays(t - row.next_review)
    IN  [topic_name |-> topic,
         retention_probability |-> 100 - row.forgetting_probability,
         streak |-> row.repetitions,
         next_review |-> row.next_review,
         urgency |-> UrgencyTier(UrgencyScore(row.forgetting_probability,
                                              overdue)),
         time_overdue_days |-> Max(0, overdue),
         sample |-> FALSE]

\* the key of lines 197-200, compared as Python compares tuples
KeyBefore(a, b) ==
    \/ TierRank(a.urgency) < TierRank(b.urgency)
    \/ /\ TierRank(a.urgency) = TierRank(b.urgency)
       /\ -a.retention_probability < -b.retention_probability

\* list.sort is stable: an entry goes behind every entry whose key is not
\* greater than its own
RECURSIVE InsertByKey(_, _)
InsertByKey(e, sorted) ==
    IF sorted = <<>> THEN <<e>>
    ELSE IF KeyBefore(e, Head(sorted)) THEN <<e>> \o sorted
    ELSE <<Head(sorted)>> \o InsertByKey(e, Tail(sorted))

RECURSIVE SortByKey(_)
SortByKey(entries) ==
    IF entries = <<>> THEN <<>>
    ELSE InsertByKey(entries[Len(entries)],
                     SortByKey(SubSeq(entries, 1, Len(entries) - 1)))

\* _create_sample_review_data: entry i of the sample list
SampleEntry(topic, i, t) ==
    LET days_overdue == i - 2
        retention    == 90 - i * 15
    IN  [topic_name |-> topic,
         retention_probability |-> Max(30, retention),
         streak |-> Max(1, 5 - i),
         next_review |-> t + Days(days_overdue),
         urgency |-> IF days_overdue > 1 THEN "critical"
                     ELSE IF days_overdue > 0 THEN "high"
                     ELSE "medium",
         time_overdue_days |-> Max(0, -days_overdue),
         sample |-> TRUE]

SampleTopics == <<"Mathematics", "Physics", "Chemistry", "Biology", "History">>

CreateSampleReviewData(userTopics, t) ==
    LET names == IF userTopics = <<>> THEN SampleTopics ELSE userTopics
        all   == [i \in 1..Len(names) |-> SampleEntry(names[i], i - 1, t)]
    IN  SubSeq(all, 1, Min(3, Len(all)))

\* the rows of the user in the order the table returns them
RECURSIVE RowsInOrder(_, _)
RowsInOrder(order, table) ==
    IF order = <<>> THEN <<>>
    ELSE (IF table[Head(order)].exists THEN <<Head(order)>> ELSE <<>>)
         \o RowsInOrder(Tail(order), table)

RECURSIVE DueEntries(_, _, _)
DueEntries(names, table, t) ==
    IF names = <<>> THEN <<>>
    ELSE (IF table[Head(names)].next_review <= t
          THEN <<DueEntry(Head(names), table[Head(names)], t)>> ELSE <<>>)
         \o DueEntries(Tail(names), table, t)

\* select('*') has no ORDER BY: any order of the rows
RowOrders ==
    {o \in [1..Cardinality(Topics) -> Topics] :
        \A i, j \in 1..Cardinality(Topics) : i # j => o[i] # o[j]}

\* what user_topics holds for the user
UserTopicLists == {<<>>, <<"Algebra", "Biology">>}

NoResult == [op |-> "none"]

GetTopicsDueForReview(order, fetchOk, userTopics) ==
    LET rows == IF fetchOk THEN RowsInOrder(order, store) ELSE <<>>
    IN  /\ due' = IF rows = <<>>
                  THEN [op |-> "get_topics_due_for_review", at |-> now,
                        topics |-> CreateSampleReviewData(userTopics, now)]
                  ELSE [op |-> "get_topics_due_for_review", at |-> now,
                        topics |-> SortByKey(DueEntries(rows, store, now))]
        /\ UNCHANGED <<store, now, submitted, last, task, ml>>

(***************************************************************************)
(* IntelligentSpacedRepetition.get_topics_due_for_review                   *)
(***************************************************************************)
\* predict_retention in hundredths: the clamped prediction, 0.5 when the
\* scaler or the model raises
RetentionGrid == {20, 50, 90}

\* lines 566-573
RetentionUrgency(retention) ==
    IF retention < 30 THEN "CRITICAL"
    ELSE IF retention < 50 THEN "HIGH"
    ELSE IF retention < 70 THEN "MEDIUM"
    ELSE "LOW"

\* is_topic_due_for_review: topic_history[-1]['score'] and prepare_features
\* raise on a bare-number entry, which the except branch answers
IsTopicDueForReview(row, retention, fitted, t) ==
    LET history == row.performance_history
    IN  IF history = <<>>
        THEN [should_review |-> TRUE, urgency |-> "HIGH", confidence |-> 80,
              predicted_retention |-> 50]
        ELSE IF PrepareFeaturesRaises(history)
        THEN [should_review |-> TRUE, urgency |-> "MEDIUM", confidence |-> 50,
              predicted_retention |-> 50]
        ELSE [should_review |->
                 \/ retention < 70
                 \/ WholeDays(t - row.last_review) > row.interval_days,
              urgency |-> RetentionUrgency(retention),
              confidence |->
                 CalculateConfidence([fitted |-> fitted, ok |-> fitted,
                                      raw |-> 0]),
              predicted_retention |-> retention]

\* the key of lines 522-525
IntelligentRank(tier) ==
    CASE tier = "CRITICAL" -> 0
      [] tier = "HIGH"     -> 1
      [] tier = "MEDIUM"   -> 2
      [] OTHER             -> 3

IntelligentKeyBefore(a, b) ==
    \/ IntelligentRank(a.urgency) < IntelligentRank(b.urgency)
    \/ /\ IntelligentRank(a.urgency) = IntelligentRank(b.urgency)
       /\ -a.confidence < -b.confidence

RECURSIVE IntelligentInsert(_, _)
IntelligentInsert(e, sorted) ==
    IF sorted = <<>> THEN <<e>>
    ELSE IF IntelligentKeyBefore(e, Head(sorted)) THEN <<e>> \o sorted
    ELSE <<Head(sorted)>> \o IntelligentInsert(e, Tail(sorted))

RECURSIVE IntelligentSort(_)
IntelligentSort(entries) ==
    IF entries = <<>> THEN <<>>
    ELSE IntelligentInsert(entries[Len(entries)],
             IntelligentSort(SubSeq(entries, 1, Len(entries) - 1)))

\* lines 506-519: the entries of the rows that should be reviewed
RECURSIVE IntelligentDueEntries(_, _, _, _, _)
IntelligentDueEntries(names, table, retention, fitted, t) ==
    IF names = <<>> THEN <<>>
    ELSE LET name   == Head(names)
             is_due == IsTopicDueForReview(table[name], retention[name],
                                           fitted, t)
         IN  (IF is_due.should_review
              THEN <<[topic_name |-> name,
                      performance_history |->
                          table[name].performance_history,
                      urgency |-> is_due.urgency,
                      confidence |-> is_due.confidence,
                      predicted_retention |-> is_due.predicted_retention]>>
              ELSE <<>>)
             \o IntelligentDueEntries(Tail(names), table, retention, fitted, t)

IntelligentTopicsDue(order, fetchOk, retention, fitted) ==
    /\ due' = [op |-> "intelligent_topics_due", at |-> now,
               topics |->
                  IF fetchOk
                  THEN IntelligentSort(
                           IntelligentDueEntries(RowsInOrder(order, store),
                                                 store, retention, fitted,
                                                 now))
                  ELSE <<>>]
    /\ UNCHANGED <<store, now, submitted, last, task, ml>>

\* which of the table round trips of one call succeed: the history fetch,
\* the read and the write of update_spaced_repetition_data ("read" and
\* "write" name the one that raises), the read of fallback_supermemo2.  The
\* fallback runs only after a history was fetched, and then no update runs.
IOOutcomes ==
    [history : BOOLEAN, update : {"ok", "read", "write"}, fallback : {TRUE}]
    \cup {[history |-> TRUE, update |-> "ok", fallback |-> FALSE]}

(***************************************************************************)
(* StudyPlanGenerator (study_plan_generator.py)                            *)
(***************************************************************************)
\* the peak_hours of the defaults and of generate_study_plan
DefaultPeakHours == <<9, 10, 11, 14, 15, 16>>

\* _get_user_preferences, lines 147-155: the defaults
DefaultPreferences ==
    [daily_study_time |-> 120, preferred_session_length |-> 25,
     break_duration |-> 5, max_sessions_per_day |-> 6,
     peak_hours |-> DefaultPeakHours, learning_style |-> "visual"]

\* _default_learning_analytics; confidence_score in hundredths
DefaultLearningAnalytics ==
    [optimal_session_length |-> 25, confidence_score |-> 50]

\* _estimate_topic_difficulty in hundredths: 'chemistry' 0.8, 'biology' 0.6,
\* 0.6 for a name with no key of the map in it
EstimateTopicDifficulty(topic) ==
    IF topic = "Chemistry" THEN 80 ELSE 60

\* _get_topic_difficulty
GetTopicDifficulty(topic) ==
    IF EstimateTopicDifficulty(topic) >= 70 THEN "hard"
    ELSE IF EstimateTopicDifficulty(topic) >= 50 THEN "medium"
    ELSE "easy"

\* one pass of the loop of _prioritize_topics, in thousandths.  The schedule
\* of _get_spaced_repetition_schedule is a list of rows or {}, in which a
\* topic name is never found, so factor 1 adds nothing
PriorityScore(topic, performance, analytics) ==
    LET gap == EstimateTopicDifficulty(topic) - analytics.confidence_score
    IN  (IF performance < 70 THEN (70 - performance) * 5 ELSE 0)
        + (IF gap < 20 /\ -gap < 20 THEN 300 ELSE 0)
        + 200

\* _convert_to_priority_enum: the value of the Priority member
ConvertToPriorityEnum(score) ==
    IF score >= 800 THEN 4
    ELSE IF score >= 600 THEN 3
    ELSE IF score >= 400 THEN 2
    ELSE 1

\* sorted(..., reverse=True) keeps the order of equal scores
RECURSIVE InsertByScore(_, _)
InsertByScore(e, sorted) ==
    IF sorted = <<>> THEN <<e>>
    ELSE IF e.score > Head(sorted).score THEN <<e>> \o sorted
    ELSE <<Head(sorted)>> \o InsertByScore(e, Tail(sorted))

RECURSIVE SortByScore(_)
SortByScore(entries) ==
    IF entries = <<>> THEN <<>>
    ELSE InsertByScore(entries[Len(entries)],
                       SortByScore(SubSeq(entries, 1, Len(entries) - 1)))

\* _prioritize_topics; performance[i] is _get_topic_performance of topic i
PrioritizeTopics(topics, performance, analytics) ==
    SortByScore([i \in 1..Len(topics) |->
                   [topic |-> topics[i],
                    score |-> PriorityScore(topics[i], performance[i],
                                            analytics)]])

\* _determine_session_type
DetermineSessionType(day) ==
    IF day = 0 THEN "new_content"
    ELSE IF day % 3 = 0 THEN "review"
    ELSE IF day % 5 = 0 THEN "assessment"
    ELSE "practice"

\* _calculate_optimal_duration: int(base_duration * 1.0)
CalculateOptimalDuration(analytics) == analytics.optimal_session_length

\* a budget check that never ends the day on the session count
DayEndsOnBudgetOnly(remaining_time, session_count, preferences) ==
    remaining_time <= 0

\* line 272: the break of the inner loop
DayEnds(remaining_time, session_count, preferences) ==
    \/ remaining_time <= 0
    \/ session_count >= preferences.max_sessions_per_day

\* a duration that leaves the remaining time of the day out
SessionDurationWithoutBudget(preferences, remaining_time, analytics) ==
    Min(preferences.preferred_session_length,
        CalculateOptimalDuration(analytics))

\* lines 279-283
SessionDuration(preferences, remaining_time, analytics) ==
    Min(preferences.preferred_session_length,
        Min(remaining_time, CalculateOptimalDuration(analytics)))

\* the inner loop of _generate_study_blocks, lines 271-303, from one topic
\* on: one record per pass that reaches line 276
RECURSIVE DayPasses(_, _, _, _, _)
DayPasses(prioritized, remaining_time, session_count, preferences, analytics) ==
    IF prioritized = <<>> THEN <<>>
    ELSE IF DayEnds(remaining_time, session_count, preferences) THEN <<>>
    ELSE LET session_duration ==
                 SessionDuration(preferences, remaining_time, analytics)
             pass == [topic |-> Head(prioritized).topic,
                      score |-> Head(prioritized).score,
                      remaining_time |-> remaining_time,
                      session_count |-> session_count,
                      session_duration |-> session_duration,
                      rest |-> Len(prioritized) - 1]
         IN  <<pass>> \o
             (IF session_duration < 10
              THEN DayPasses(Tail(prioritized), remaining_time, session_count,
                             preferences, analytics)
              ELSE DayPasses(Tail(prioritized),
                             remaining_time - (session_duration
                                               + preferences.break_duration),
                             session_count + 1, preferences, analytics))

\* lines 288-301: the blocks of the passes that were not skipped
RECURSIVE DayBlocks(_, _)
DayBlocks(passes, day) ==
    IF passes = <<>> THEN <<>>
    ELSE (IF Head(passes).session_duration < 10 THEN <<>>
          ELSE <<[topic |-> Head(passes).topic, day |-> day,
                  session_type |-> DetermineSessionType(day),
                  duration_minutes |-> Head(passes).session_duration,
                  priority |-> ConvertToPriorityEnum(Head(passes).score),
                  difficulty |-> GetTopicDifficulty(Head(passes).topic)]>>)
         \o DayBlocks(Tail(passes), day)

\* the passes of each day of range(available_days)
StudyPasses(prioritized, preferences, available_days, analytics) ==
    [day \in 1..Max(0, available_days) |->
        DayPasses(prioritized, preferences.daily_study_time, 0, preferences,
                  analytics)]

\* _generate_study_blocks: the blocks of all days, day 0 first
RECURSIVE GenerateStudyBlocks(_, _)
GenerateStudyBlocks(passes, day) ==
    IF day > Len(passes) THEN <<>>
    ELSE DayBlocks(passes[day], day - 1) \o GenerateStudyBlocks(passes, day + 1)

\* cognitive_load in tenths, 0.5 for a difficulty that is not a key
CognitiveLoad(difficulty) ==
    CASE difficulty = "easy"   -> 3
      [] difficulty = "medium" -> 6
      [] difficulty = "hard"   -> 9
      [] OTHER                 -> 5


\* a key that compares the priority alone
BlockBeforeByPriority(a, b) == -a.priority < -b.priority

\* the key of lines 345-348
BlockBefore(a, b) ==
    \/ -a.priority < -b.priority
    \/ /\ a.priority = b.priority
       /\ CognitiveLoad(a.difficulty) < CognitiveLoad(b.difficulty)

RECURSIVE InsertBlock(_, _)
InsertBlock(block, sorted) ==
    IF sorted = <<>> THEN <<block>>
    ELSE IF BlockBefore(block, Head(sorted)) THEN <<block>> \o sorted
    ELSE <<Head(sorted)>> \o InsertBlock(block, Tail(sorted))

RECURSIVE SortBlocks(_)
SortBlocks(blocks) ==
    IF blocks = <<>> THEN <<>>
    ELSE InsertBlock(blocks[Len(blocks)],
                     SortBlocks(SubSeq(blocks, 1, Len(blocks) - 1)))

\* _get_time_of_day
GetTimeOfDay(hour) ==
    IF 6 <= hour /\ hour < 12 THEN "morning"
    ELSE IF 12 <= hour /\ hour < 17 THEN "afternoon"
    ELSE "evening"

\* efficiency_curves.get(learning_style, {}).get(time_of_day, 0.7), in tenths
StyleEfficiency(learning_style, time_of_day) ==
    CASE learning_style = "visual" ->
             (CASE time_of_day = "morning" -> 9
                [] time_of_day = "afternoon" -> 8
                [] OTHER -> 7)
      [] learning_style = "auditory" ->
             (CASE time_of_day = "afternoon" -> 9 [] OTHER -> 8)
      [] learning_style = "kinesthetic" ->
             (CASE time_of_day = "morning" -> 7
                [] time_of_day = "afternoon" -> 9
                [] OTHER -> 6)
      [] learning_style = "reading" ->
             (CASE time_of_day = "morning" -> 9
                [] time_of_day = "afternoon" -> 7
                [] OTHER -> 8)
      [] OTHER -> 7

\* a time is a number of minutes since 00:00 of the day of the call;
\* datetime.replace(hour=h) keeps the date and the minute
HourOf(time) == (time \div 60) % 24

ReplaceHour(time, hour) == (time \div 1440) * 1440 + hour * 60 + (time % 60)

\* the loop of lines 405-411: the first peak hour of the list whose
\* efficiency is above style_efficiency, start_time when there is none
RECURSIVE BetterPeakTime(_, _, _, _)
BetterPeakTime(peak_hours, start_time, learning_style, style_efficiency) ==
    IF peak_hours = <<>> THEN start_time
    ELSE IF StyleEfficiency(learning_style, GetTimeOfDay(Head(peak_hours)))
               > style_efficiency
         THEN ReplaceHour(start_time, Head(peak_hours))
         ELSE BetterPeakTime(Tail(peak_hours), start_time, learning_style,
                             style_efficiency)

\* _find_optimal_time_slot
FindOptimalTimeSlot(start_time, block, preferences) ==
    LET style_efficiency ==
            StyleEfficiency(preferences.learning_style,
                            GetTimeOfDay(HourOf(start_time)))
    IN  IF CognitiveLoad(block.difficulty) > 7 /\ style_efficiency < 8
        THEN BetterPeakTime(preferences.peak_hours, start_time,
                            preferences.learning_style, style_efficiency)
        ELSE start_time

\* the loop of lines 353-374; start is optimal_time, start_time what
\* strftime('%H:%M') keeps of it, in minutes of the day
RECURSIVE ScheduleSessions(_, _, _)
ScheduleSessions(sorted_blocks, current_time, preferences) ==
    IF sorted_blocks = <<>> THEN <<>>
    ELSE LET block == Head(sorted_blocks)
             optimal_time ==
                 FindOptimalTimeSlot(current_time, block, preferences)
         IN  <<[topic |-> block.topic,
                session_type |-> block.session_type,
                start |-> optimal_time,
                start_time |-> optimal_time % 1440,
                duration_minutes |-> block.duration_minutes,
                difficulty |-> block.difficulty,
                priority |-> block.priority,
                break_after |-> preferences.break_duration]>>
             \o ScheduleSessions(Tail(sorted_blocks),
                                 optimal_time + block.duration_minutes
                                     + preferences.break_duration,
                                 preferences)

\* _optimize_daily_schedule: the sessions of one day; peak_hours is not
\* empty (IndexError at line 351 otherwise)
OptimizeDailySchedule(blocks, preferences) ==
    ScheduleSessions(SortBlocks(blocks), preferences.peak_hours[1] * 60,
                     preferences)

\* _optimize_schedule: one entry per day that has blocks
RECURSIVE OptimizeSchedule(_, _, _)
OptimizeSchedule(passes, day, preferences) ==
    IF day > Len(passes) THEN <<>>
    ELSE (IF DayBlocks(passes[day], day - 1) = <<>> THEN <<>>
          ELSE <<[day |-> day - 1,
                  sessions |->
                     OptimizeDailySchedule(DayBlocks(passes[day], day - 1),
                                           preferences)]>>)
         \o OptimizeSchedule(passes, day + 1, preferences)

\* generate_personalized_study_plan.  TypeError at line 88 for a target date
\* that carries a UTC offset, IndexError at line 351 for a profile whose
\* peak_hours is empty; nothing in the method or in generate_study_plan
\* (smart_scheduler.py:58-85) answers them but HTTP 500.  The preferences are
\* those of the request, of the stored profile, or the defaults when the
\* profile fetch fails or finds nothing.  The generator keeps nothing from
\* one request to the next: a behaviour serves one request.
GeneratePersonalizedStudyPlan(topics, target, source, given, analytics, performance, saveOk) ==
    LET preferences    == IF source = "default" THEN DefaultPreferences
                          ELSE given
        available_days == WholeDays(target.at - now)
        prioritized    == PrioritizeTopics(topics, performance, analytics)
        passes         == StudyPasses(prioritized, preferences,
                                      available_days, analytics)
        study_blocks   == GenerateStudyBlocks(passes, 1)
        request == [op |-> "generate_personalized_study_plan",
                    topics |-> topics, target |-> target, at |-> now,
                    source |-> source]
    IN  /\ last = NoResponse
        /\ last' =
             IF \/ target.aware
                \/ preferences.peak_hours = <<>> /\ study_blocks # <<>>
             THEN request @@ [raised |-> TRUE, saved |-> FALSE]
             ELSE request @@
                  [raised |-> FALSE,
                   preferences |-> preferences,
                   analytics |-> analytics,
                   available_days |-> available_days,
                   total_study_time_minutes |->
                       available_days * preferences.daily_study_time,
                   passes |-> passes,
                   study_blocks |-> study_blocks,
                   daily_sessions |-> OptimizeSchedule(passes, 1, preferences),
                   saved |-> saveOk]
        /\ UNCHANGED <<store, now, submitted, due, task, ml>>

(***************************************************************************)
(* IntelligentScheduler (intelligent_scheduler.py).  Hours are kept in     *)
(* minutes; the session lengths of the model are multiples of 15 minutes,  *)
(* for which max_session_length / 60 and the subtractions of               *)
(* plan_cluster_sessions are exact in binary floating point.               *)
(***************************************************************************)
\* create_basic_topics
BasicTopics(subject) ==
    <<[name |-> <<subject, "Fundamentals">>, difficulty |-> "easy",
       estimated_hours |-> 2],
      [name |-> <<subject, "Intermediate">>, difficulty |-> "medium",
       estimated_hours |-> 3],
      [name |-> <<subject, "Advanced">>, difficulty |-> "hard",
       estimated_hours |-> 4]>>

DifficultyNumeric(difficulty) ==
    CASE difficulty = "easy" -> 1
      [] difficulty = "hard" -> 3
      [] OTHER               -> 2

\* calculate_cluster_priority of a cluster of one topic:
\* int(difficulty + hours / 10) within 1..5
CalculateClusterPriority(topic) ==
    Min(5, Max(1, (DifficultyNumeric(topic.difficulty) * 10
                   + topic.estimated_hours) \div 10))

\* cluster_topics_by_difficulty on two or three topics of distinct
\* (difficulty, hours): KMeans with as many clusters as distinct points puts
\* each topic in a cluster of its own, listed in the order of the topics.
\* A single topic is returned as it is (line 350): a topic row, which has
\* no total_hours, difficulty_level or priority
ClusterTopicsByDifficulty(topics) ==
    IF Len(topics) < 2 THEN topics
    ELSE [i \in 1..Len(topics) |->
            [topics |-> <<topics[i]>>,
             difficulty_level |-> topics[i].difficulty,
             total_hours |-> topics[i].estimated_hours,
             priority |-> CalculateClusterPriority(topics[i])]]

\* the topics of existing_topics that belong to the subject
RECURSIVE SubjectTopics(_, _)
SubjectTopics(subject, existing_topics) ==
    IF existing_topics = <<>> THEN <<>>
    ELSE (IF Head(existing_topics).subject = subject
          THEN <<Head(existing_topics)>> ELSE <<>>)
         \o SubjectTopics(subject, Tail(existing_topics))

\* create_topic_clusters: the basic topics for a subject that has none
RECURSIVE CreateTopicClusters(_, _)
CreateTopicClusters(subjects, existing_topics) ==
    IF subjects = <<>> THEN <<>>
    ELSE LET subject_topics == SubjectTopics(Head(subjects), existing_topics)
         IN  ClusterTopicsByDifficulty(
                 IF subject_topics = <<>> THEN BasicTopics(Head(subjects))
                 ELSE subject_topics)
             \o CreateTopicClusters(Tail(subjects), existing_topics)

\* the loop of plan_cluster_sessions, remaining_hours in minutes
RECURSIVE ClusterSessions(_, _, _, _)
ClusterSessions(cluster, remaining, session_id, max_session_length) ==
    IF remaining <= 0 THEN <<>>
    ELSE LET session == Min(remaining, max_session_length)
         IN  <<[duration |-> session,
                topics |-> SubSeq(cluster.topics, session_id + 1,
                                  Min(Len(cluster.topics), session_id + 2)),
                type |-> IF session_id = 0 THEN "learning" ELSE "review",
                difficulty |-> cluster.difficulty_level,
                priority |-> cluster.priority]>>
             \o ClusterSessions(cluster, remaining - session, session_id + 1,
                                max_session_length)

PlanClusterSessions(cluster, max_session_length) ==
    ClusterSessions(cluster, cluster.total_hours * 60, 0, max_session_length)


\* plan_cluster_sessions pass by pass: a call holds total_hours,
\* max_session_length and the loop's variables; the model stops following a
\* call after MaxLoopPasses passes
BeginPlanClusterSessions(w, total_hours, max_session_length) ==
    /\ task[w].pc = "idle"
    /\ task' = [task EXCEPT ![w] =
                  [pc |-> "planning",
                   total_hours |-> total_hours,
                   max_session_length |-> max_session_length,
                   remaining_hours |-> total_hours * 60,
                   session_id |-> 0,
                   sessions |-> <<>>]]
    /\ UNCHANGED <<store, now, submitted, last, due, ml>>

\* one pass of the while loop, lines 467-479
PlanningPass(w) ==
    /\ task[w].pc = "planning"
    /\ task[w].remaining_hours > 0
    /\ task[w].session_id < MaxLoopPasses
    /\ LET session_hours == Min(task[w].remaining_hours,
                                task[w].max_session_length)
       IN  task' = [task EXCEPT
                      ![w].sessions =
                          Append(@, [duration |-> session_hours,
                                     type |-> IF task[w].session_id = 0
                                              THEN "learning" ELSE "review"]),
                      ![w].remaining_hours = @ - session_hours,
                      ![w].session_id = @ + 1]
    /\ UNCHANGED <<store, now, submitted, last, due, ml>>

\* the loop condition fails: return sessions
PlanningReturns(w) ==
    /\ task[w].pc = "planning"
    /\ task[w].remaining_hours <= 0
    /\ task' = [task EXCEPT ![w] = NoTask]
    /\ last' = [op |-> "plan_cluster_sessions",
                raised |-> FALSE,
                total_hours |-> task[w].total_hours,
                max_session_length |-> task[w].max_session_length,
                sessions |-> task[w].sessions]
    /\ UNCHANGED <<store, now, submitted, due, ml>>

\* calculate_session_confidence in hundredths
CalculateSessionConfidence(session) ==
    LET by_duration == IF session.duration >= 20 /\ session.duration <= 45
                       THEN 80
                       ELSE IF session.duration > 60 THEN 60 ELSE 70
        confidence  == by_duration
                       + (IF session.difficulty = "medium" THEN 5
                          ELSE IF session.difficulty = "hard" THEN -5 ELSE 0)
    IN  Min(95, Max(50, confidence))

RECURSIVE AllClusterSessions(_, _)
AllClusterSessions(clusters, max_session_length) ==
    IF clusters = <<>> THEN <<>>
    ELSE PlanClusterSessions(Head(clusters), max_session_length)
         \o AllClusterSessions(Tail(clusters), max_session_length)

\* get_user_profile and get_learning_analytics return None when the fetch
\* raises or finds nothing
NoProfile == [exists |-> FALSE]
NoAnalytics == [exists |-> FALSE]

\* calculate_optimal_schedule: [] when anything in it raises (an exam date
\* that does not parse or carries an offset, a profile that is None, a
\* cluster without the key 'total_hours' at line 419) and when the exam is
\* less than a day away; else one session a day from today for as long as
\* the day is before the exam
CalculateOptimalSchedule(clusters, exam, profile, patterns, t) ==
    IF \/ ~exam.valid
       \/ exam.aware
       \/ WholeDays(exam.at - t) <= 0
       \/ ~profile.exists
       \/ \E i \in 1..Len(clusters) : "total_hours" \notin DOMAIN clusters[i]
    THEN <<>>
    ELSE LET max_session_length == Min(patterns.session_length,
                                       profile.attention_span)
             sessions == AllClusterSessions(clusters, max_session_length)
             kept     == {i \in 1..Len(sessions) : t + Days(i - 1) < exam.at}
         IN  [i \in 1..Cardinality(kept) |->
                 [day |-> i - 1,
                  duration |-> sessions[i].duration,
                  topics |-> sessions[i].topics,
                  difficulty |-> sessions[i].difficulty,
                  priority |-> sessions[i].priority,
                  session_type |-> sessions[i].type,
                  ml_confidence |-> CalculateSessionConfidence(sessions[i])]]

\* calculate_plan_confidence in hundredths, for analytics that hold
\* learning_velocity only
CalculatePlanConfidence(analytics) ==
    IF analytics.exists THEN 80 ELSE 60

\* fallback_basic_plan: one session per subject
FallbackBasicPlan(subjects) ==
    [plan |-> [i \in 1..Len(subjects) |->
                  [day |-> i - 1, duration |-> 60,
                   topics |-> <<<<subjects[i], "Study Session">>>>,
                   difficulty |-> "medium", priority |-> 3,
                   session_type |-> "learning", ml_confidence |-> 50]],
     personalized |-> FALSE,
     ml_confidence |-> 50,
     adaptation_frequency |-> "manual"]

\* generate_intelligent_plan.  The except branch is entered when
\* create_topic_clusters raises (clusterOk false: a topic row whose
\* difficulty is not a key of difficulty_counts, a topics fetch that
\* returns None) and when user_profile is None at line 57;
\* fallback_basic_plan parses exam_date itself, outside any try.
GenerateIntelligentPlan(subjects, existing_topics, exam, profile, analytics, patterns, clusterOk) ==
    LET schedule == CalculateOptimalSchedule(
                        CreateTopicClusters(subjects, existing_topics),
                        exam, profile, patterns, now)
        request  == [op |-> "generate_intelligent_plan",
                     subjects |-> subjects,
                     existing_topics |-> existing_topics,
                     exam |-> exam, at |-> now,
                     profile |-> profile, analytics |-> analytics,
                     patterns |-> patterns, clustered |-> clusterOk]
    IN  /\ last' =
             IF clusterOk /\ profile.exists
             THEN request @@
                  [raised |-> FALSE, plan |-> schedule,
                   personalized |-> TRUE,
                   ml_confidence |-> CalculatePlanConfidence(analytics),
                   adaptation_frequency |-> "weekly"]
             ELSE IF ~exam.valid \/ exam.aware
             THEN request @@ [raised |-> TRUE]
             ELSE request @@ [raised |-> FALSE] @@ FallbackBasicPlan(subjects)
        /\ UNCHANGED <<store, now, submitted, due, task, ml>>

(***************************************************************************)
(* MLService (ml_service.py) and the collector thread that retrains it     *)
(* (data_collector.py).  A fitted object is identified by the generation   *)
(* of the training run that fitted it; 0 stands for a key that is absent.  *)
(* DataCollector runs _collection_loop in a threading.Thread, so a         *)
(* retraining and a prediction on the same MLService interleave between    *)
(* any two statements.                                                     *)
(***************************************************************************)
NoTraining == [pc |-> "idle", generation |-> 0]

NoPrediction == [pc |-> "idle", model |-> 0]

\* MLService.__init__
NewService ==
    [models_loaded |-> FALSE,
     models |-> 0,
     scalers |-> 0,
     trainings |-> 0,
     training |-> NoTraining,
     prediction |-> NoPrediction]

\* _retrain_models_if_needed calls initialize_models when the recent counts
\* are large enough; _train_optimal_interval_predictor fits and evaluates a
\* new scaler and a new model in local variables
InitializeModels(recent_quizzes, recent_sessions) ==
    /\ ml.training.pc = "idle"
    /\ ml.trainings < MaxGenerations
    /\ recent_quizzes > 100 \/ recent_sessions > 50
    /\ ml' = [ml EXCEPT !.trainings = @ + 1,
                        !.training = [pc |-> "fitted",
                                      generation |-> ml.trainings + 1]]
    /\ UNCHANGED <<store, now, submitted, last, due, task>>

\* self.models['interval_predictor'] = model
SaveModel ==
    /\ ml.training.pc = "fitted"
    /\ ml' = [ml EXCEPT !.models = ml.training.generation,
                        !.training.pc = "model_saved"]
    /\ UNCHANGED <<store, now, submitted, last, due, task>>

\* self.scalers['interval_predictor'] = scaler
SaveScaler ==
    /\ ml.training.pc = "model_saved"
    /\ ml' = [ml EXCEPT !.scalers = ml.training.generation,
                        !.training.pc = "scaler_saved"]
    /\ UNCHANGED <<store, now, submitted, last, due, task>>

\* the remaining trainers, then self.models_loaded = True
ModelsLoaded ==
    /\ ml.training.pc = "scaler_saved"
    /\ ml' = [ml EXCEPT !.models_loaded = TRUE,
                        !.training = NoTraining]
    /\ UNCHANGED <<store, now, submitted, last, due, task>>

\* predict_optimal_interval up to its first read: the default interval
\* while models_loaded is false
PredictOptimalInterval ==
    /\ ml.prediction.pc = "idle"
    /\ IF ~ml.models_loaded
       THEN /\ last' = [op |-> "predict_optimal_interval",
                        default |-> TRUE, model |-> 0, scaler |-> 0]
            /\ UNCHANGED ml
       ELSE /\ ml' = [ml EXCEPT !.prediction.pc = "loaded"]
            /\ UNCHANGED last
    /\ UNCHANGED <<store, now, submitted, due, task>>

\* model = self.models['interval_predictor']
ReadModel ==
    /\ ml.prediction.pc = "loaded"
    /\ ml' = [ml EXCEPT !.prediction = [pc |-> "model_read",
                                        model |-> ml.models]]
    /\ UNCHANGED <<store, now, submitted, last, due, task>>

\* scaler = self.scalers['interval_predictor'], then the features are scaled
\* by that scaler and given to that model
ReadScaler ==
    /\ ml.prediction.pc = "model_read"
    /\ last' = [op |-> "predict_optimal_interval",
                default |-> FALSE,
                model |-> ml.prediction.model,
                scaler |-> ml.scalers]
    /\ ml' = [ml EXCEPT !.prediction = NoPrediction]
    /\ UNCHANGED <<store, now, submitted, due, task>>

\* IntelligentSpacedRepetition.prepare_training_data: the loop over the
\* users extracts nothing
PrepareTrainingData(user_data) == <<>>

\* IntelligentSpacedRepetition.train_models: fits the live scaler and the
\* live models in place only when at least 10 samples were prepared
TrainModels(user_data) ==
    LET X == PrepareTrainingData(user_data)
    IN  /\ last' = [op |-> "train_models",
                    users |-> Len(user_data),
                    samples |-> Len(X),
                    fitted |-> user_data # <<>> /\ Len(X) >= 10]
        /\ UNCHANGED <<store, now, submitted, due, task, ml>>

(***************************************************************************)
(* Specifications                                                          *)
(***************************************************************************)
EmptyTable == [t \in Topics |-> NoRow]

\* rows the table may hold when the service starts: the row of a topic after
\* earlier reviews through calculate_next_review
SeedRows ==
    {NoRow,
     AfterReviews(FloorSeedReviews, 30, "medium"),
     AfterReviews(LevelSeedReviews, 95, "easy")}

Idle ==
    /\ now = 0
    /\ submitted = 0
    /\ last = NoResponse
    /\ due = NoResult
    /\ task = [w \in Workers |-> NoTask]
    /\ ml = NewService

Init ==
    /\ store = EmptyTable
    /\ Idle

InitSeeded ==
    /\ store \in [Topics -> SeedRows]
    /\ \A t \in Topics \ ReviewTopics : store[t] = NoRow
    /\ Idle

\* review submissions through SpacedRepetitionEngine
Next ==
    \/ \E t \in ReviewTopics, s \in Scores, d \in Difficulties,
          readOk \in BOOLEAN, writeOk \in BOOLEAN :
            CalculateNextReview(t, s, d, readOk, writeOk)
    \/ AdvanceClock

Spec == Init /\ [][Next]_vars

SpecSeeded == InitSeeded /\ [][Next]_vars

\* review submissions through IntelligentSpacedRepetition, one at a time
NextISR ==
    \E t \in ReviewTopics, s \in Scores, d \in Difficulties,
       io \in IOOutcomes, pred \in Predictions :
         CalculateIntelligentInterval(t, s, d, io, pred)

\* rows the table may hold when the service starts: rows either engine wrote
IntelligentSeedRows ==
    {NoRow,
     AfterReviews(DriftSeedReviews, 70, "medium"),
     AfterIntelligentReviews(EarlySeedReviews, 95),
     AfterIntelligentReviews(LateSeedReviews, 95)}

InitISR ==
    /\ store \in [Topics -> IntelligentSeedRows]
    /\ \A t \in Topics \ ReviewTopics : store[t] = NoRow
    /\ Idle

SpecISR == InitISR /\ [][NextISR]_vars

\* concurrent submissions for one topic that already has a row (two inserts
\* of one key race in the table, whose key constraint is not this code's)
ConcurrentSeed == UpdatedRow(NoRow, 85, 1, Days(1), 0)

InitConcurrent ==
    /\ store = [EmptyTable EXCEPT !["Algebra"] = ConcurrentSeed]
    /\ Idle

NextConcurrent ==
    \/ \E w \in Workers, t \in ReviewTopics, s \in Scores,
          io \in IOOutcomes, pred \in Predictions :
            BeginReview(w, t, s, io, pred)
    \/ \E w \in Workers, readOk \in BOOLEAN : ReadExisting(w, readOk)
    \/ \E w \in Workers, writeOk \in BOOLEAN : WriteBack(w, writeOk)

SpecConcurrent == InitConcurrent /\ [][NextConcurrent]_vars

\* rows other writers of the table left: a forgetting probability and a
\* next_review of their own
ForgettingGrid == {0, 50, 85}
NextReviewGrid == {0 - Days(3), 0 - 1, 1}

ExternalRow(forgetting, next_review) ==
    [exists |-> TRUE, interval_days |-> 1, repetitions |-> 1,
     ease_factor |-> 25, last_review |-> next_review - Days(1),
     next_review |-> next_review,
     performance_history |-> <<NumberEntry(70)>>,
     forgetting_probability |-> forgetting]

ExternalRows ==
    {ExternalRow(f, n) : f \in ForgettingGrid, n \in NextReviewGrid}

InitDue ==
    /\ store \in [Topics -> ExternalRows \cup {NoRow}]
    /\ Idle

NextDue ==
    \/ \E order \in RowOrders, fetchOk \in BOOLEAN,
          userTopics \in UserTopicLists :
            GetTopicsDueForReview(order, fetchOk, userTopics)
    \/ AdvanceClock

SpecDue == InitDue /\ [][NextDue]_vars

\* rows for the topics-due operations of both engines: none, a row no
\* review was recorded in, rows either engine wrote
UnreviewedRow ==
    [exists |-> TRUE, interval_days |-> 1, repetitions |-> 0,
     ease_factor |-> 25, last_review |-> 0 - Days(1), next_review |-> 0,
     performance_history |-> <<>>, forgetting_probability |-> 0]

BothEnginesRows ==
    {NoRow, UnreviewedRow, AfterIntelligentReviews(EarlySeedReviews, 95),
     AfterReviews(1, 70, "medium")}

\* the retention predicted for each row; the rows and the row orders are
\* symmetric in the topics, so the predictions are taken in one order
RetentionChoices ==
    {r \in [Topics -> RetentionGrid] :
        r["Algebra"] <= r["Biology"] /\ r["Biology"] <= r["Chemistry"]}

InitBothDue ==
    /\ store \in [Topics -> BothEnginesRows]
    /\ Idle

NextBothDue ==
    \/ \E order \in RowOrders, fetchOk \in BOOLEAN,
          userTopics \in UserTopicLists :
            GetTopicsDueForReview(order, fetchOk, userTopics)
    \/ \E order \in RowOrders, fetchOk \in BOOLEAN,
          retention \in RetentionChoices, fitted \in BOOLEAN :
            IntelligentTopicsDue(order, fetchOk, retention, fitted)
    \/ AdvanceClock

SpecBothDue == InitBothDue /\ [][NextBothDue]_vars

\* what a plan request carries and what the tables hold for the user
PlanTopicLists == {<<>>, <<"Algebra">>, <<"Algebra", "Biology", "Chemistry">>}
DailyStudyTimes == {0, 45, 120}
SessionLengths == {5, 25, 45}
BreakDurations == {0, 5}
SessionLimits == {0, 2, 6}

PreferenceChoices ==
    [daily_study_time : DailyStudyTimes,
     preferred_session_length : SessionLengths,
     break_duration : BreakDurations,
     max_sessions_per_day : SessionLimits,
     peak_hours : {<<>>, DefaultPeakHours},
     learning_style : {"visual"}]

\* the analytics of _analyze_learning_patterns: the defaults without quiz
\* results, else what the user's sessions and scores give
AnalyticsChoices ==
    {DefaultLearningAnalytics,
     [optimal_session_length |-> 0, confidence_score |-> 50],
     [optimal_session_length |-> 40, confidence_score |-> 80]}

\* _get_topic_performance in hundredths: 0.5 without quiz results of the topic
PerformanceChoices == {<<50, 50, 50>>, <<90, 50, 20>>}

\* target dates: naive ones around the current time, and one with an offset
TargetDates ==
    {[aware |-> FALSE, at |-> Days(d)] : d \in (0 - 1)..MaxPlanDays}
    \cup {[aware |-> FALSE, at |-> 0 - 1], [aware |-> TRUE, at |-> Days(1)]}

InitPlan ==
    /\ store = EmptyTable
    /\ Idle

\* the preferences each source can give: generate_study_plan
\* (smart_scheduler.py:65-73) fixes the break, the session limit and
\* peak_hours; a stored profile may hold any value, [] for peak_hours too
PreferencesOf(source) ==
    CASE source = "request" ->
             {p \in PreferenceChoices :
                 /\ p.peak_hours = DefaultPeakHours
                 /\ p.break_duration = 5
                 /\ p.max_sessions_per_day = 6}
      [] source = "profile" -> PreferenceChoices
      [] OTHER -> {DefaultPreferences}

ServeStudyPlan ==
    /\ last = NoResponse
    /\ \E topics \in PlanTopicLists, target \in TargetDates,
          source \in {"request", "profile", "default"},
          analytics \in AnalyticsChoices,
          performance \in PerformanceChoices, saveOk \in BOOLEAN :
           \E given \in PreferencesOf(source) :
               GeneratePersonalizedStudyPlan(topics, target, source, given,
                                             analytics, performance, saveOk)

\* what a call of generate_intelligent_plan is given and finds
SubjectLists == {<<>>, <<"Algebra">>, <<"Algebra", "Biology">>}

\* exam_date: ISO text without or with a UTC offset, or text that does not
\* parse
ExamDates ==
    {[valid |-> TRUE, aware |-> FALSE, at |-> Days(d)] :
        d \in (0 - 1)..MaxPlanDays}
    \cup {[valid |-> TRUE, aware |-> TRUE, at |-> Days(1)],
          [valid |-> FALSE, aware |-> FALSE, at |-> 0]}

\* the topic rows the user already has: none, one of a subject, two
ExistingTopicLists ==
    {<<>>,
     <<[name |-> "Equations", subject |-> "Algebra", difficulty |-> "medium",
        estimated_hours |-> 2]>>,
     <<[name |-> "Equations", subject |-> "Algebra", difficulty |-> "medium",
        estimated_hours |-> 2],
       [name |-> "Groups", subject |-> "Algebra", difficulty |-> "hard",
        estimated_hours |-> 3]>>}

AttentionSpans == {15, 30, 60}
ProfileChoices ==
    {NoProfile} \cup
    {[exists |-> TRUE, attention_span |-> a] : a \in AttentionSpans}

SchedulerAnalyticsChoices == {NoAnalytics, [exists |-> TRUE]}

\* optimal_study_times of analyze_learning_patterns: session_length 30
\* without study sessions or when the analysis fails, else their mean
PatternChoices == {[session_length |-> m] : m \in {30, 45, 90}}

ServeIntelligentPlan ==
    /\ last = NoResponse
    /\ \E subjects \in SubjectLists, existing_topics \in ExistingTopicLists,
          exam \in ExamDates, profile \in ProfileChoices,
          analytics \in SchedulerAnalyticsChoices,
          patterns \in PatternChoices, clusterOk \in BOOLEAN :
           GenerateIntelligentPlan(subjects, existing_topics, exam, profile,
                                   analytics, patterns, clusterOk)

NextPlan == ServeStudyPlan \/ ServeIntelligentPlan

SpecPlan == InitPlan /\ [][NextPlan]_vars

\* a collector thread retraining one MLService while requests predict on it
RecentCounts == {<<0, 0>>, <<101, 0>>, <<0, 51>>}

UserData == {<<>>, <<"u1">>, <<"u1", "u2">>}

InitRetrain ==
    /\ store = EmptyTable
    /\ Idle

NextRetrain ==
    \/ \E c \in RecentCounts : InitializeModels(c[1], c[2])
    \/ SaveModel
    \/ SaveScaler
    \/ ModelsLoaded
    \/ PredictOptimalInterval
    \/ ReadModel
    \/ ReadScaler
    \/ \E user_data \in UserData : TrainModels(user_data)

SpecRetrain == InitRetrain /\ [][NextRetrain]_vars


\* _generate_study_blocks and _optimize_daily_schedule each called once, on
\* the arguments _generate_personalized_study_plan can hand them
HorizonTopicLists == {<<"Algebra">>, <<"Chemistry", "Algebra", "Biology">>}

HorizonPreferences ==
    {DefaultPreferences,
     [DefaultPreferences EXCEPT !.max_sessions_per_day = 2],
     [DefaultPreferences EXCEPT !.daily_study_time = 45]}

GenerateStudyBlocksCall(topics, preferences, available_days) ==
    LET prioritized == PrioritizeTopics(topics, <<50, 50, 50>>,
                                        DefaultLearningAnalytics)
        passes == StudyPasses(prioritized, preferences, available_days,
                              DefaultLearningAnalytics)
    IN  /\ last' = [op |-> "_generate_study_blocks",
                    raised |-> FALSE,
                    topics |-> topics,
                    preferences |-> preferences,
                    available_days |-> available_days,
                    study_blocks |-> GenerateStudyBlocks(passes, 1)]
        /\ UNCHANGED <<store, now, submitted, due, task, ml>>

DayBlockChoices ==
    [topic : {"Algebra"}, day : {0}, session_type : {"new_content"},
     duration_minutes : {30}, priority : 1..4,
     difficulty : {"easy", "medium", "hard"}]

RECURSIVE SeqsUpTo(_, _)
SeqsUpTo(S, n) ==
    IF n = 0 THEN {<<>>}
    ELSE LET shorter == SeqsUpTo(S, n - 1)
         IN  shorter \cup {Append(q, x) : q \in shorter, x \in S}

DayBlockLists == SeqsUpTo(DayBlockChoices, MaxDayBlocks) \ {<<>>}

DayPeakHours == {<<9, 16>>, <<16>>, <<18, 14, 9>>, <<20, 8, 14>>}

DayPreferences ==
    {[DefaultPreferences EXCEPT !.break_duration = b, !.peak_hours = p,
                                !.learning_style = s] :
        b \in BreakDurations, p \in DayPeakHours,
        s \in {"visual", "kinesthetic"}}

OptimizeDailyScheduleCall(blocks, preferences) ==
    /\ last' = [op |-> "_optimize_daily_schedule",
                raised |-> FALSE,
                blocks |-> blocks,
                preferences |-> preferences,
                sessions |-> OptimizeDailySchedule(blocks, preferences)]
    /\ UNCHANGED <<store, now, submitted, due, task, ml>>

InitDay ==
    /\ store = EmptyTable
    /\ Idle

ServeStudyBlocks ==
    /\ last = NoResponse
    /\ \E topics \in HorizonTopicLists, preferences \in HorizonPreferences,
          available_days \in 0..MaxHorizonDays :
            GenerateStudyBlocksCall(topics, preferences, available_days)

ServeDailySchedule ==
    /\ last = NoResponse
    /\ \E blocks \in DayBlockLists, preferences \in DayPreferences :
            OptimizeDailyScheduleCall(blocks, preferences)

NextDay == ServeStudyBlocks \/ ServeDailySchedule

SpecDay == InitDay /\ [][NextDay]_vars


\* calls of plan_cluster_sessions with the total_hours of a cluster and the
\* max_session_length calculate_optimal_schedule computes: the minimum of
\* the profile's attention_span and int() of the mean recorded duration
ClusterHours == {0, 1, 2}

SessionLengthCaps == {0, 30, 45}

InitLoop ==
    /\ store = EmptyTable
    /\ Idle

NextLoop ==
    \/ \E w \in Workers, total_hours \in ClusterHours,
          max_session_length \in SessionLengthCaps :
            BeginPlanClusterSessions(w, total_hours, max_session_length)
    \/ \E w \in Workers : PlanningPass(w)
    \/ \E w \in Workers : PlanningReturns(w)

SpecLoop == InitLoop /\ [][NextLoop]_vars

(***************************************************************************)
(* Properties                                                              *)
(***************************************************************************)
Answered(op) == last.op = op /\ ~last.raised
ByEngine == Answered("calculate_next_review")
ByIntelligent == Answered("calculate_intelligent_interval")

\* C1: after any sequence of graded reviews through calculate_next_review
\* the ease factor returned and persisted is never below 1.3.
C1_EaseFactorNeverBelowFloor ==
    /\ ByEngine => last.ease_factor >= 13
    /\ \A t \in Topics : store[t].exists => store[t].ease_factor >= 13

\* C2: every interval_days returned by a review submission lies in [1,365],
\* through either engine.
C2_IntervalWithinRange ==
    (ByEngine \/ ByIntelligent) =>
        (last.interval_days >= 1 /\ last.interval_days <= 365)

\* C3: when concurrent submissions for one (user, topic) have all completed
\* and written, no update is lost: the repetition count has grown by one per
\* submission and the history holds one new entry per submission.
C3_NoLostUpdate ==
    (\A w \in Workers : task[w].pc = "done" /\ task[w].saved) =>
        /\ store["Algebra"].repetitions =
               ConcurrentSeed.repetitions + NumWorkers
        /\ Len(store["Algebra"].performance_history) =
               Len(ConcurrentSeed.performance_history) + NumWorkers

\* C4: the first-ever review of a topic through calculate_next_review returns
\* interval_days = 1 for every score >= 60 and every tag; score 95 on a
\* medium topic returns interval_days = 1 and ease_factor 2.6.
C4_FirstReviewIsOneDay ==
    (ByEngine /\ ~last.pre.exists /\ last.score >= 60) =>
        /\ last.interval_days = 1
        /\ (last.score = 95 /\ last.difficulty = "medium")
               => last.ease_factor = 26

\* C5: the second review of a topic (exactly one prior review stored) through
\* calculate_next_review returns interval_days = 6 for every score >= 60.
C5_SecondReviewIsSixDays ==
    (/\ ByEngine
     /\ last.pre.exists
     /\ last.pre.repetitions = 1
     /\ Len(last.pre.performance_history) = 1
     /\ last.score >= 60) => last.interval_days = 6

\* C6: after a submitted review with score below 60 the repetition count
\* persisted for the pair is 0.
C6_FailedReviewResetsRepetitions ==
    ((ByEngine \/ ByIntelligent) /\ last.saved /\ last.score < 60) =>
        store[last.topic].repetitions = 0

\* C7: calculate_intelligent_interval never raises; whatever fails, it
\* returns a record whose interval_days is an integer >= 1, with a next_review
\* and a confidence.
C7_IntelligentIntervalAlwaysAnswers ==
    last.op = "calculate_intelligent_interval" =>
        /\ ~last.raised
        /\ last.interval_days >= 1
        /\ last.next_review = now + Days(last.interval_days)
        /\ last.confidence \in 50..95

\* the Tier-A interval of the specification for a score and a prior state, as
\* C8 words it
C8_TierA(prior, score) ==
    LET multiplier == IF score >= 90 THEN 15
                      ELSE IF score >= 80 THEN 12
                      ELSE IF score >= 60 THEN 10
                      ELSE IF score >= 40 THEN 7
                      ELSE 5
        base == (prior.interval_days * prior.ease_factor) \div 10
    IN  IF ~prior.exists \/ prior.repetitions = 0 THEN 1
        ELSE IF prior.repetitions = 1 THEN 6
        ELSE Max(1, Min(365, (base * multiplier) \div 10))

\* C8: when the predictor is unavailable or its prediction fails, the interval
\* returned equals the Tier-A interval for the same score and prior state.
C8_FallbackEqualsTierA ==
    (ByIntelligent /\ ~last.predicted) =>
        last.interval_days = C8_TierA(last.pre, last.score)

\* the claim's own reading of a due entry: whole days and tier
C9_WholeDaysBetween(from, to) ==
    CHOOSE d \in -400..400 :
        d * TicksPerDay <= to - from /\ to - from < (d + 1) * TicksPerDay

C9_Tier(urgency) ==
    IF urgency > 80 THEN "critical"
    ELSE IF urgency > 60 THEN "high"
    ELSE IF urgency > 40 THEN "medium"
    ELSE "low"

C10_Urgency(e) == (100 - e.retention_probability) + 10 * e.time_overdue_days

\* C10: the returned list is ordered by tier from most to least severe, within
\* a tier by urgency descending, and on equal urgency by lower retention
\* probability first.
C10_DueTopicsOrder ==
    due.op = "get_topics_due_for_review" =>
        \A i \in 1..(Len(due.topics) - 1) :
            LET a == due.topics[i]
                b == due.topics[i + 1]
            IN  (~a.sample /\ ~b.sample) =>
                  /\ TierRank(a.urgency) <= TierRank(b.urgency)
                  /\ a.urgency = b.urgency =>
                        /\ C10_Urgency(a) >= C10_Urgency(b)
                        /\ C10_Urgency(a) = C10_Urgency(b) =>
                              a.retention_probability <= b.retention_probability

\* C11: a topic with no spaced-repetition state, or with a state that has no
\* review history, is reported with the critical tier by the topics-due
\* operations of both engines.
C11_NoStateIsCritical ==
    /\ due.op = "get_topics_due_for_review" =>
          \A i \in 1..Len(due.topics) :
              (\/ due.topics[i].sample
               \/ store[due.topics[i].topic_name].performance_history = <<>>)
                 => due.topics[i].urgency = "critical"
    /\ due.op = "intelligent_topics_due" =>
          \A i \in 1..Len(due.topics) :
              due.topics[i].performance_history = <<>>
                 => due.topics[i].urgency = "CRITICAL"

PlanAnswered == last.op = "generate_personalized_study_plan" /\ ~last.raised

\* the minutes a day's sessions take with one break between consecutive ones
RECURSIVE C12_Minutes(_)
C12_Minutes(sessions) ==
    IF sessions = <<>> THEN 0
    ELSE Head(sessions).duration_minutes + C12_Minutes(Tail(sessions))

C12_Scheduled(sessions, break_duration) ==
    C12_Minutes(sessions) + (Len(sessions) - 1) * break_duration

\* C12: for every day of a plan built by _generate_study_blocks the block
\* durations plus one break between consecutive blocks add up to at most
\* daily_study_time.
C12_DayWithinBudget ==
    PlanAnswered =>
        \A i \in 1..Len(last.daily_sessions) :
            C12_Scheduled(last.daily_sessions[i].sessions,
                          last.preferences.break_duration)
              <= last.preferences.daily_study_time

C12_Witness ==
    /\ PlanAnswered
    /\ \E i \in 1..Len(last.daily_sessions) :
          /\ Len(last.daily_sessions[i].sessions) >= 2
          /\ last.preferences.break_duration > 0
          /\ C12_Scheduled(last.daily_sessions[i].sessions,
                           last.preferences.break_duration)
               = last.preferences.daily_study_time

\* where the passes of a day leave the loop variables
C14_After(pass, break_duration) ==
    IF pass.session_duration < 10
    THEN [remaining_time |-> pass.remaining_time,
          session_count |-> pass.session_count]
    ELSE [remaining_time |-> pass.remaining_time
                             - (pass.session_duration + break_duration),
          session_count |-> pass.session_count + 1]

C14_Stopped(state, limit) ==
    state.remaining_time <= 0 \/ state.session_count >= limit

\* C14: no day of a plan has more than max_sessions_per_day blocks; the
\* generation for a day stops as soon as the remaining budget is <= 0 or the
\* session count reaches the maximum, and a candidate shorter than 10 minutes
\* is skipped without ending the day.
C14_SessionLimitAndStops ==
    PlanAnswered =>
        LET limit == last.preferences.max_sessions_per_day
            brk   == last.preferences.break_duration
        IN  /\ \A i \in 1..Len(last.daily_sessions) :
                  Len(last.daily_sessions[i].sessions) <= limit
            /\ \A d \in 1..Len(last.passes) :
                  LET passes == last.passes[d]
                  IN  /\ \A k \in 1..Len(passes) :
                            /\ ~C14_Stopped(passes[k], limit)
                            /\ LET after == C14_After(passes[k], brk)
                               IN  IF k < Len(passes)
                                   THEN /\ passes[k + 1].remaining_time
                                             = after.remaining_time
                                        /\ passes[k + 1].session_count
                                             = after.session_count
                                   ELSE passes[k].rest > 0
                                           => C14_Stopped(after, limit)
                      /\ (passes = <<>> /\ last.topics # <<>>)
                            => C14_Stopped(
                                  [remaining_time |->
                                       last.preferences.daily_study_time,
                                   session_count |-> 0], limit)

C14_Witness ==
    /\ PlanAnswered
    /\ last.preferences.max_sessions_per_day = 2
    /\ Len(last.topics) = 3
    /\ \E i \in 1..Len(last.daily_sessions) :
          Len(last.daily_sessions[i].sessions) = 2
    /\ \E d \in 1..Len(last.passes) :
          /\ Len(last.passes[d]) = 2
          /\ last.passes[d][2].remaining_time > 0

SchedulerAnswered == last.op = "generate_intelligent_plan" /\ ~last.raised

\* C13: every study block of a plan lasts at least 10 minutes and at most
\* min(preferred_session_length, attention_span) of the user, in the plans
\* of both generators.
C13_BlockDurationWithinCap ==
    /\ PlanAnswered =>
          \A i \in 1..Len(last.study_blocks) :
              /\ last.study_blocks[i].duration_minutes >= 10
              /\ last.study_blocks[i].duration_minutes
                    <= last.preferences.preferred_session_length
    /\ (SchedulerAnswered /\ last.profile.exists) =>
          \A i \in 1..Len(last.plan) :
              /\ last.plan[i].duration >= 10
              /\ last.plan[i].duration
                    <= Min(last.patterns.session_length,
                           last.profile.attention_span)

PlanRequested ==
    last.op \in {"generate_personalized_study_plan",
                 "generate_intelligent_plan"}

\* C15: plan generation never propagates a failure to its caller; when
\* clustering or another step fails unexpectedly the caller gets the basic
\* fallback plan (medium sessions, confidence 0.5), not an exception or an
\* error response.
C15_PlanNeverFails ==
    /\ PlanRequested => ~last.raised
    /\ (last.op = "generate_intelligent_plan" /\ ~last.clustered) =>
          /\ last.ml_confidence = 50
          /\ \A i \in 1..Len(last.plan) : last.plan[i].difficulty = "medium"

\* C16: when the profile, history or analytics fetch fails or finds nothing,
\* the plan is computed by the normal path with the default values; the
\* failure alone neither raises nor gives the basic fallback plan.
C16_FetchFailureUsesDefaults ==
    /\ (/\ last.op = "generate_personalized_study_plan"
        /\ last.source = "default"
        /\ ~last.target.aware) =>
          /\ ~last.raised
          /\ last.preferences = DefaultPreferences
    /\ (/\ last.op = "generate_intelligent_plan"
        /\ ~last.profile.exists \/ ~last.analytics.exists
        /\ last.clustered
        /\ last.exam.valid /\ ~last.exam.aware) =>
          /\ ~last.raised
          /\ last.adaptation_frequency = "weekly"
          /\ last.personalized

\* C17: a plan request whose target date is not after the current time is
\* rejected with a validation error; no plan, not even one without sessions,
\* is returned or saved for it.
C17_PastTargetRejected ==
    /\ (/\ last.op = "generate_personalized_study_plan"
        /\ ~last.target.aware
        /\ last.target.at <= last.at) => (last.raised /\ ~last.saved)
    /\ (/\ last.op = "generate_intelligent_plan"
        /\ last.exam.valid /\ ~last.exam.aware
        /\ last.exam.at <= last.at) => last.raised

\* C18: a review submission whose difficulty tag is not easy, medium or hard
\* is rejected with a validation error and leaves the stored state of the
\* pair unchanged; the tag is never replaced by a default difficulty.
C18_UnknownTagRejected ==
    (/\ last.op = "calculate_next_review"
     /\ last.difficulty \notin {"easy", "medium", "hard"}) =>
        /\ last.raised
        /\ store[last.topic] = last.pre

\* C19: while a retraining runs beside interval predictions, every prediction
\* that uses the fitted objects scales its features with the scaler of the
\* same training generation as the model it asks.
C19_ScalerAndModelOfOneGeneration ==
    (last.op = "predict_optimal_interval" /\ ~last.default) =>
        last.model = last.scaler

\* C20: every review submission that is answered leaves the pair's stored
\* performance history one entry longer than the submission found it, the
\* earlier entries unchanged and in their order.
C20_Before == IF last.pre.exists THEN last.pre.performance_history ELSE <<>>

C20_OneEntryPerSubmission ==
    (ByEngine \/ ByIntelligent) =>
        /\ store[last.topic].exists
        /\ Len(store[last.topic].performance_history) = Len(C20_Before) + 1
        /\ SubSeq(store[last.topic].performance_history, 1, Len(C20_Before))
               = C20_Before

\* the same for the submissions whose write of the row succeeded
C20_SavedSubmissionAppends ==
    ((ByEngine \/ ByIntelligent) /\ last.saved) =>
        /\ store[last.topic].exists
        /\ Len(store[last.topic].performance_history) = Len(C20_Before) + 1
        /\ SubSeq(store[last.topic].performance_history, 1, Len(C20_Before))
               = C20_Before

\* an answered submission that took the fallback with every table call
\* succeeding
C20_FallbackWithTableUp ==
    /\ ByIntelligent
    /\ last.fallback
    /\ last.confidence = 60
    /\ last.pre.exists

\* C21: a review whose row is written leaves the ease factor (tenths) at the
\* prior one plus 0.1 for a score of 90 or more, unchanged for 80..89, minus
\* 0.1 for 60..79, and minus 0.2 but not below 1.3 for a score under 60; the
\* prior ease factor of a first review is 2.5.
C21_Prior == IF last.pre.exists THEN last.pre.ease_factor ELSE 25

C21_Rule ==
    IF last.score >= 90 THEN C21_Prior + 1
    ELSE IF last.score >= 80 THEN C21_Prior
    ELSE IF last.score >= 60 THEN C21_Prior - 1
    ELSE Max(13, C21_Prior - 2)

C21_EaseFactorRule ==
    ((ByEngine \/ ByIntelligent) /\ last.saved) =>
        store[last.topic].ease_factor = C21_Rule

\* the same for calculate_next_review alone, with the value it returns
C21_EngineFollowsRule ==
    (ByEngine /\ last.saved) =>
        /\ store[last.topic].ease_factor = C21_Rule
        /\ last.ease_factor = C21_Rule

\* a first review through calculate_intelligent_interval scored 95
C21_FirstIntelligentReview ==
    /\ ByIntelligent
    /\ last.saved
    /\ ~last.pre.exists
    /\ last.score = 95

\* C23: every block of the horizon has the session type of its day index:
\* new content on day 0, review on every 3rd day, assessment on every 5th
\* day, practice otherwise; a day whose index is a positive multiple of 5
\* has assessment blocks only.
C23_SessionTypeCadence ==
    Answered("_generate_study_blocks") =>
        \A i \in 1..Len(last.study_blocks) :
            LET b == last.study_blocks[i]
            IN  /\ b.day = 0 => b.session_type = "new_content"
                /\ (b.day > 0 /\ b.day % 5 = 0) =>
                       b.session_type = "assessment"
                /\ (b.day > 0 /\ b.day % 3 = 0 /\ b.day % 5 # 0) =>
                       b.session_type = "review"
                /\ (b.day % 3 # 0 /\ b.day % 5 # 0) =>
                       b.session_type = "practice"

\* the cadence with review taking the days that are multiples of both
C23_ReviewBeforeAssessment ==
    Answered("_generate_study_blocks") =>
        \A i \in 1..Len(last.study_blocks) :
            LET b == last.study_blocks[i]
            IN  /\ b.day = 0 => b.session_type = "new_content"
                /\ (b.day > 0 /\ b.day % 3 = 0) => b.session_type = "review"
                /\ (b.day % 3 # 0 /\ b.day % 5 = 0) =>
                       b.session_type = "assessment"
                /\ (b.day % 3 # 0 /\ b.day % 5 # 0) =>
                       b.session_type = "practice"

\* C24: the sessions of a day returned by _optimize_daily_schedule are listed
\* by priority from CRITICAL (4) down to LOW (1), and sessions of equal
\* priority by cognitive load ascending (easy 0.3, medium 0.6, hard 0.9).
C24_Load(difficulty) ==
    CASE difficulty = "easy" -> 3
      [] difficulty = "medium" -> 6
      [] difficulty = "hard" -> 9

C22_Clock(i) ==
    IF i = 1 THEN last.preferences.peak_hours[1] * 60
    ELSE last.sessions[i - 1].start + last.sessions[i - 1].duration_minutes
             + last.sessions[i - 1].break_after

C22_Efficiency(hour) ==
    StyleEfficiency(last.preferences.learning_style, GetTimeOfDay(hour))

C22_PeakRange == 1..Len(last.preferences.peak_hours)

C22_MovedToBestPeakHour ==
    Answered("_optimize_daily_schedule") =>
        \A i \in 1..Len(last.sessions) :
            last.sessions[i].start # C22_Clock(i) =>
                /\ last.sessions[i].difficulty = "hard"
                /\ \E k \in C22_PeakRange :
                     HourOf(last.sessions[i].start)
                         = last.preferences.peak_hours[k]
                /\ \A k \in C22_PeakRange :
                     C22_Efficiency(HourOf(last.sessions[i].start))
                         >= C22_Efficiency(last.preferences.peak_hours[k])

\* C25: in a day returned by _optimize_daily_schedule every session starts
\* at or after the start of the session listed before it plus that
\* session's duration and break.
C25_NoOverlap ==
    Answered("_optimize_daily_schedule") =>
        \A i \in 2..Len(last.sessions) :
            last.sessions[i].start >=
                last.sessions[i - 1].start
                    + last.sessions[i - 1].duration_minutes
                    + last.sessions[i - 1].break_after

\* a hard block moved onto the time span of the day's first session
C25_MovedOntoEarlierSession ==
    /\ Answered("_optimize_daily_schedule")
    /\ Len(last.sessions) = 3
    /\ last.sessions[3].start >= last.sessions[1].start
    /\ last.sessions[3].start
           < last.sessions[1].start + last.sessions[1].duration_minutes

\* C26: after a calculate_next_review call that wrote the row, the stored
\* interval_days equals the interval_days returned, and the stored
\* next_review is the stored last_review plus that many days.
C26_PersistedIntervalIsReturned ==
    (ByEngine /\ last.saved) =>
        /\ store[last.topic].interval_days = last.interval_days
        /\ store[last.topic].next_review
               = store[last.topic].last_review + Days(last.interval_days)

\* the second half alone: next_review is last_review plus the returned days
C26_NextReviewFollowsReturned ==
    (ByEngine /\ last.saved) =>
        /\ store[last.topic].next_review
               = store[last.topic].last_review + Days(last.interval_days)
        /\ last.next_review = store[last.topic].next_review

\* C27: whenever a review submission is answered with a result record, the
\* row of the pair has been written with this review: one more repetition
\* than the submission found, reviewed at the time of the submission.
C27_AnsweredMeansStored ==
    (ByEngine \/ ByIntelligent) =>
        /\ last.saved
        /\ store[last.topic].exists
        /\ store[last.topic].repetitions
               = (IF last.pre.exists THEN last.pre.repetitions ELSE 0) + 1

\* C28: a review scored below 60 that follows an answered and stored review
\* of the same topic returns an interval_days no longer than that review
\* returned.
C28_FailedReviewDoesNotLengthen ==
    [][(/\ ByEngine
        /\ last.saved
        /\ submitted' = submitted + 1
        /\ last'.op = "calculate_next_review"
        /\ ~last'.raised
        /\ last'.topic = last.topic
        /\ last'.difficulty = last.difficulty
        /\ last'.score < 60)
          => last'.interval_days <= last.interval_days]_vars

\* C29: plan_cluster_sessions terminates: every pass of its loop leaves less
\* remaining time than it found (the loop runs while the remaining time is
\* positive, and a pass depends on nothing else that changes).
C29_EveryPassMakesProgress ==
    [][\A w \in Workers :
         (/\ task[w].pc = "planning"
          /\ task'[w].pc = "planning"
          /\ task'[w].session_id = task[w].session_id + 1)
            => task'[w].remaining_hours < task[w].remaining_hours]_vars

\* the same for the calls whose max_session_length is positive
C29_PositiveCapMakesProgress ==
    [][\A w \in Workers :
         (/\ task[w].pc = "planning"
          /\ task[w].max_session_length > 0
          /\ task'[w].pc = "planning"
          /\ task'[w].session_id = task[w].session_id + 1)
            => task'[w].remaining_hours < task[w].remaining_hours]_vars

\* a call with max_session_length 0 that has made MaxLoopPasses passes and
\* has as much time remaining as it began with
C29_StuckCall ==
    \E w \in Workers :
        /\ task[w].pc = "planning"
        /\ task[w].max_session_length = 0
        /\ task[w].session_id = MaxLoopPasses
        /\ task[w].remaining_hours = task[w].total_hours * 60

\* C30: a plan request with at least one subject, a profile that is
\* available and an exam date that parses and is a day or more ahead is
\* answered with a schedule of at least one session, whatever topics the
\* user already has.
C30_Premise ==
    /\ Answered("generate_intelligent_plan")
    /\ last.subjects # <<>>
    /\ last.profile.exists
    /\ last.exam.valid
    /\ ~last.exam.aware
    /\ last.exam.at - last.at >= Days(1)

C30_ScheduleNotEmpty == C30_Premise => last.plan # <<>>

\* the same for the users who have no topic or two topics of the subject
C30_NotEmptyUnlessOneTopic ==
    (C30_Premise /\ Len(last.existing_topics) # 1) => last.plan # <<>>

\* the request of a user with exactly one topic, on the normal path
C30_OneExistingTopic ==
    /\ C30_Premise
    /\ Len(last.existing_topics) = 1
    /\ last.subjects = <<"Algebra">>
    /\ last.personalized
    /\ last.plan = <<>>

====
